---- MODULE Spec2Model ----
(***************************************************************************)
(* RocBox<T> and SendSafeRocBox<T> of crates/roc_std/src/roc_box.rs: one   *)
(* allocation holding a Storage cell followed by the payload, handles      *)
(* that share the allocation through the cell's reference count, and the   *)
(* wrapper that lets a box cross a thread boundary.                        *)
(*                                                                         *)
(* The payload type T is a type with a destructor whose values are moved   *)
(* (each value of Values is handed to RocBox::new at most once).           *)
(***************************************************************************)
EXTENDS Integers, FiniteSets, Sequences, Bags, TLC

\* ------------------------------------------------------------------ bounds
\* Blocks the allocator can hand out.
MaxAddr == 2
\* Handle variables (RocBox or SendSafeRocBox) alive at one time.
MaxHandles == 3
\* Threads of the program.
MaxThreads == 2
\* Payload values the callers own at the start.
MaxValues == 2

\* --------------------------------------------------------- the payload type
\* mem::size_of::<T>() and mem::align_of::<T>() of the payload type modelled.
size_of_T == 8
align_of_T == 8
\* mem::align_of::<Storage>(): Storage holds one isize.
align_of_Storage == 8

\* ptr.is_null(): the address roc_alloc returns on failure.
NULL == 0
\* What the payload slot of a block fresh from roc_alloc holds.
Uninit == 0

Threads == 1..MaxThreads
Values == 1..MaxValues
\* The payload of the statically embedded read-only box.
StaticValue == MaxValues + 1

\* RocBox::alloc_alignment
alloc_alignment == IF align_of_T >= align_of_Storage THEN align_of_T ELSE align_of_Storage

\* RocBox::new: let bytes = size_of::<T>() + alignment
bytes == size_of_T + alloc_alignment

\* The base addresses roc_alloc can return: disjoint blocks of `bytes` bytes.
HeapBases == {bytes * k : k \in 1..MaxAddr}
\* The base address of the statically embedded read-only box.
StaticBase == bytes * (MaxAddr + 1)
Bases == HeapBases \cup {StaticBase}

\* ------------------------------------------------------------ Storage cell
Readonly == [tag |-> "Readonly", rc |-> 0]
ReferenceCounted(n) == [tag |-> "ReferenceCounted", rc |-> n]

new_reference_counted == ReferenceCounted(1)

is_readonly(s) == s.tag = "Readonly"

is_unique(s) == s.tag = "ReferenceCounted" /\ s.rc = 1

increment_reference_count(s) ==
    IF is_readonly(s) THEN s ELSE ReferenceCounted(s.rc + 1)

\* decrease: the cell after the decrement, and whether the caller must deallocate.
decrease(s) ==
    IF is_readonly(s)
    THEN [storage |-> s, needs_dealloc |-> FALSE]
    ELSE [storage |-> ReferenceCounted(s.rc - 1), needs_dealloc |-> s.rc - 1 = 0]

\* ------------------------------------------------------------------- state
VARIABLES
    mem,       \* base address -> the block there: live, storage, contents, and
               \* how often its payload's destructor ran and it was deallocated
    boxes,     \* the bag of live handles: each a RocBox or a SendSafeRocBox,
               \* the payload address it holds and the thread that owns it
    unmoved,   \* the values no caller has moved into RocBox::new yet
    panicked,  \* the process ended in RocBox::new's allocation-failure panic
    returned,  \* the value the operation last run handed back by value
               \* (into_inner's T), Uninit when it handed back none
    destroyed, \* for each value moved into RocBox::new, how often T's
               \* destructor has run or is bound to run on it: by this code,
               \* and by the caller on a T that into_inner handed back
               \* (counted under DestructorSpec only)
    layout,    \* the address arithmetic of one box of one payload type: the
               \* type, the block roc_alloc gave, and the addresses new,
               \* storage and drop computed
    scope,     \* a Scope of compiler/can/src/scope.rs: its IdentStore and its
               \* abilities store
    all_ident_ids,  \* the IdentIds of the module being canonicalised: the
               \* idents added so far, each at its IdentId
    result     \* what the Scope operation last run returned

vars == <<mem, boxes, unmoved, panicked, returned, destroyed, layout, scope,
          all_ident_ids, result>>

\* The state of a Scope and of its caller.
scope_vars == <<scope, all_ident_ids, result>>

\* What the operations on the boxes leave alone.
layout_vars == <<layout>>
\* What the address arithmetic leaves alone.
box_vars == <<mem, boxes, unmoved, panicked, returned, destroyed>>

\* No payload type under study.
NoLayout == [pc |-> "none"]

\* No Scope under study.
NoScope == [home |-> 0]
NoResult == [op |-> "none"]

NoBox == [kind |-> "none", contents |-> NULL, thread |-> 0]

FreeBlock == [live |-> FALSE, storage |-> Readonly, contents |-> Uninit,
              dtor |-> 0, dealloc |-> 0]

\* The read-only box the program image embeds: its cell is Readonly from the start.
StaticBlock == [live |-> TRUE, storage |-> Readonly, contents |-> StaticValue,
                dtor |-> 0, dealloc |-> 0]

\* Ghost counters stop counting at 2 ("twice or more").
Bump(n) == IF n >= 2 THEN 2 ELSE n + 1

\* RocBox::storage: the cell is `alignment` bytes before the payload.
storage(contents) == contents - alloc_alignment

\* storage.get(): a cell of a live block holds what was written; reading a
\* released block is undefined behaviour and may yield any cell value.
get(m, a) ==
    IF a \in DOMAIN m /\ m[a].live
    THEN {m[a].storage}
    ELSE {Readonly} \cup {ReferenceCounted(n) : n \in 1..2}

\* storage.set(s): writes to a released block are not tracked.
set(m, a, s) ==
    IF a \in DOMAIN m /\ m[a].live THEN [m EXCEPT ![a].storage = s] ELSE m

\* ptr::read(self.contents.as_ptr()): the payload bits.
read(m, contents) ==
    IF storage(contents) \in DOMAIN m /\ m[storage(contents)].live
    THEN {m[storage(contents)].contents}
    ELSE Values \cup {Uninit}

\* roc_alloc: any block not in use, or null.
roc_alloc(m) == {a \in HeapBases : ~m[a].live} \cup {NULL}

\* roc_dealloc(ptr, alignment)
roc_dealloc(m, a) ==
    IF a \in DOMAIN m
    THEN [m EXCEPT ![a].live = FALSE, ![a].storage = Readonly,
                   ![a].contents = Uninit, ![a].dealloc = Bump(m[a].dealloc)]
    ELSE m

\* mem::drop::<T>(ptr::read(contents_ptr)): the destructor runs on the payload.
drop_contents(m, a) ==
    IF a \in DOMAIN m THEN [m EXCEPT ![a].dtor = Bump(m[a].dtor)] ELSE m

\* RocBox::new after a successful roc_alloc: the cell, then the payload.
new_block(m, ptr, contents) ==
    [m EXCEPT ![ptr] = [live |-> TRUE, storage |-> new_reference_counted,
                        contents |-> contents, dtor |-> 0, dealloc |-> 0]]

RocBox(contents, t) == [kind |-> "RocBox", contents |-> contents, thread |-> t]
SendSafeRocBox(contents, t) ==
    [kind |-> "SendSafeRocBox", contents |-> contents, thread |-> t]

\* The live handles, and whether one more can be created.
Live == BagToSet(boxes)
Room == BagCardinality(boxes) < MaxHandles

\* One handle added to / taken out of the bag.
Put(bag, b) == bag (+) SetToBag({b})
Take(bag, b) == bag (-) SetToBag({b})

Init ==
    /\ mem = [a \in Bases |-> IF a = StaticBase THEN StaticBlock ELSE FreeBlock]
    /\ boxes = SetToBag({RocBox(StaticBase + alloc_alignment, 1)})
    /\ unmoved = Values
    /\ panicked = FALSE
    /\ returned = Uninit
    /\ destroyed = [v \in Values |-> 0]
    /\ layout = NoLayout
    /\ scope = NoScope
    /\ all_ident_ids = <<>>
    /\ result = NoResult

\* ------------------------------------------------------- RocBox operations
\* Each yields the set of its possible outcomes: the memory afterwards, the
\* payload address of the box returned (ptr), and what it did on the way: the
\* payloads destructors ran on (dropped), the cells written (wrote), the cell
\* values deep_copy was called on (deep), and whether it panicked.
Outcome(m, ptr, dropped, wrote, deep, panic) ==
    [mem |-> m, ptr |-> ptr, dropped |-> dropped, wrote |-> wrote,
     deep |-> deep, panic |-> panic]

\* A faulty new that goes on with the null address roc_alloc returned.
new_ignores_null(m, contents) ==
    {IF ptr = NULL
     THEN Outcome(m, NULL + alloc_alignment, {Uninit}, {NULL}, {}, FALSE)
     ELSE Outcome(new_block(m, ptr, contents), ptr + alloc_alignment,
                  {Uninit}, {ptr}, {}, FALSE)
     : ptr \in roc_alloc(m)}

\* RocBox::new(contents). A null block ends in todo!(); otherwise the cell is
\* written, and `*contents_ptr = contents` drops what the slot held before
\* storing the value.
new(m, contents) ==
    {IF ptr = NULL
     THEN Outcome(m, NULL, {}, {}, {}, TRUE)
     ELSE Outcome(new_block(m, ptr, contents), ptr + alloc_alignment,
                  {Uninit}, {ptr}, {}, FALSE)
     : ptr \in roc_alloc(m)}

\* A faulty clone that hands out the handle without writing the incremented
\* count back.
clone_no_increment(m, contents) ==
    {Outcome(m, contents, {}, {}, {}, FALSE)}

\* A faulty clone that increments without asking is_readonly first.
clone_ignores_readonly(m, contents) ==
    {Outcome(set(m, storage(contents), ReferenceCounted(s.rc + 1)),
             contents, {}, {storage(contents)}, {}, FALSE)
     : s \in get(m, storage(contents))}

\* RocBox::clone(&self)
clone(m, contents) ==
    {IF ~is_readonly(s)
     THEN Outcome(set(m, storage(contents), increment_reference_count(s)),
                  contents, {}, {storage(contents)}, {}, FALSE)
     ELSE Outcome(m, contents, {}, {}, {}, FALSE)
     : s \in get(m, storage(contents))}

\* A faulty drop that never writes the decremented count back.
drop_no_writeback(m, contents) ==
    {LET d == decrease(sv[1])
         a == storage(contents)
     IN  IF d.needs_dealloc
         THEN Outcome(roc_dealloc(drop_contents(m, a), a), NULL,
                      {sv[2]}, {}, {}, FALSE)
         ELSE Outcome(m, NULL, {}, {}, {}, FALSE)
     : sv \in get(m, storage(contents)) \X read(m, contents)}

\* A faulty drop that releases a counted block whatever its count.
drop_always_frees(m, contents) ==
    {LET a == storage(contents)
     IN  IF ~is_readonly(sv[1])
         THEN Outcome(roc_dealloc(drop_contents(m, a), a), NULL,
                      {sv[2]}, {}, {}, FALSE)
         ELSE Outcome(m, NULL, {}, {}, {}, FALSE)
     : sv \in get(m, storage(contents)) \X read(m, contents)}

\* A faulty drop that marks a block it does not release as read-only.
drop_marks_readonly(m, contents) ==
    {LET d == decrease(sv[1])
         a == storage(contents)
     IN  IF d.needs_dealloc
         THEN Outcome(roc_dealloc(drop_contents(m, a), a), NULL,
                      {sv[2]}, {}, {}, FALSE)
         ELSE IF ~is_readonly(d.storage)
         THEN Outcome(set(m, a, Readonly), NULL, {}, {a}, {}, FALSE)
         ELSE Outcome(m, NULL, {}, {}, {}, FALSE)
     : sv \in get(m, storage(contents)) \X read(m, contents)}

\* A faulty drop that hands the block to roc_dealloc before it reads and
\* destroys the payload.
drop_frees_first(m, contents) ==
    {LET d == decrease(sv[1])
         a == storage(contents)
     IN  IF d.needs_dealloc
         THEN Outcome(drop_contents(roc_dealloc(m, a), a), NULL,
                      {sv[2]}, {}, {}, FALSE)
         ELSE IF ~is_readonly(d.storage)
         THEN Outcome(set(m, a, d.storage), NULL, {}, {a}, {}, FALSE)
         ELSE Outcome(m, NULL, {}, {}, {}, FALSE)
     : sv \in get(m, storage(contents)) \X read(roc_dealloc(m, storage(contents)), contents)}

\* RocBox::drop(&mut self)
drop(m, contents) ==
    {LET d == decrease(sv[1])
         a == storage(contents)
     IN  IF d.needs_dealloc
         THEN Outcome(roc_dealloc(drop_contents(m, a), a), NULL,
                      {sv[2]}, {}, {}, FALSE)
         ELSE IF ~is_readonly(d.storage)
         THEN Outcome(set(m, a, d.storage), NULL, {}, {a}, {}, FALSE)
         ELSE Outcome(m, NULL, {}, {}, {}, FALSE)
     : sv \in get(m, storage(contents)) \X read(m, contents)}

\* RocBox::deep_copy(&self): Self::new(ptr::read(self.contents))
deep_copy(m, contents) ==
    UNION {{[o EXCEPT !.deep = {sv[1]}] : o \in new(m, sv[2])}
           : sv \in get(m, storage(contents)) \X read(m, contents)}

\* o2 run after o1: the memory and result of o2, the effects of both.
Then(o1, o2) ==
    [o2 EXCEPT !.dropped = o1.dropped \cup o2.dropped,
               !.wrote = o1.wrote \cup o2.wrote,
               !.deep = o1.deep \cup o2.deep]

\* The `storage().get()` / `storage().set(storage_)` pair both conversions to a
\* SendSafeRocBox start with: the cell read, and the memory with it written back.
peek(m, contents) ==
    {[storage_ |-> s,
      out |-> Outcome(set(m, storage(contents), s), contents, {},
                      {storage(contents)}, {}, FALSE)]
     : s \in get(m, storage(contents))}

\* A faulty conversion that deep-copies whatever the cell says.
send_safe_from_always_copies(m, contents) ==
    UNION {UNION {IF c.panic
                  THEN {Then(p.out, c)}
                  ELSE {Then(p.out, [Then(c, d) EXCEPT !.ptr = c.ptr])
                        : d \in drop(c.mem, contents)}
                  : c \in deep_copy(p.out.mem, contents)}
           : p \in peek(m, contents)}

\* A faulty conversion that wraps the box it is given whatever the cell says.
send_safe_from_never_copies(m, contents) ==
    {p.out : p \in peek(m, contents)}

\* A faulty conversion that forgets the box it copied instead of dropping it.
send_safe_from_keeps_original(m, contents) ==
    UNION {IF is_readonly(p.storage_) \/ is_unique(p.storage_)
           THEN {p.out}
           ELSE {Then(p.out, c) : c \in deep_copy(p.out.mem, contents)}
           : p \in peek(m, contents)}

\* impl From<RocBox<T>> for SendSafeRocBox<T>: from(b). In the deep-copy branch
\* `b` is still owned by the function and is dropped when it returns.
send_safe_from(m, contents) ==
    UNION {IF is_readonly(p.storage_) \/ is_unique(p.storage_)
           THEN {p.out}
           ELSE UNION {IF c.panic
                       THEN {Then(p.out, c)}
                       ELSE {Then(p.out, [Then(c, d) EXCEPT !.ptr = c.ptr])
                             : d \in drop(c.mem, contents)}
                       : c \in deep_copy(p.out.mem, contents)}
           : p \in peek(m, contents)}

\* A faulty SendSafeRocBox::clone that shares a unique box as the conversion does.
send_safe_clone_shares_unique(m, contents) ==
    UNION {IF is_readonly(p.storage_) \/ is_unique(p.storage_)
           THEN {Then(p.out, c) : c \in clone(p.out.mem, contents)}
           ELSE {Then(p.out, c) : c \in deep_copy(p.out.mem, contents)}
           : p \in peek(m, contents)}

\* A faulty SendSafeRocBox::clone that deep-copies a read-only box too.
send_safe_clone_always_copies(m, contents) ==
    UNION {{Then(p.out, c) : c \in deep_copy(p.out.mem, contents)}
           : p \in peek(m, contents)}

\* impl Clone for SendSafeRocBox<T>: clone(&self)
send_safe_clone(m, contents) ==
    UNION {IF is_readonly(p.storage_)
           THEN {Then(p.out, c) : c \in clone(p.out.mem, contents)}
           ELSE {Then(p.out, c) : c \in deep_copy(p.out.mem, contents)}
           : p \in peek(m, contents)}

\* ------------------------------------------------------------------ actions
\* Each action is its operation run on a live handle b with one of the
\* operation's outcomes o: X_did(b, o) is the step that outcome makes.

RocBox_new_did(t, v, o) ==
    /\ mem' = o.mem
    /\ panicked' = o.panic
    /\ boxes' = IF o.panic THEN boxes ELSE Put(boxes, RocBox(o.ptr, t))
    /\ returned' = Uninit
    /\ unmoved' = unmoved \ {v}
    /\ UNCHANGED <<layout_vars, scope_vars>>

\* A thread constructs a box over a value it owns.
RocBox_new(t, v) ==
    /\ ~panicked
    /\ UNCHANGED destroyed
    /\ v \in unmoved
    /\ Room
    /\ \E o \in new(mem, v) : RocBox_new_did(t, v, o)

RocBox_clone_did(b, o) ==
    /\ mem' = o.mem
    /\ boxes' = Put(boxes, RocBox(o.ptr, b.thread))
    /\ returned' = Uninit
    /\ UNCHANGED <<unmoved, panicked>>
    /\ UNCHANGED <<layout_vars, scope_vars>>

\* b.clone() on a RocBox
RocBox_clone(b) ==
    /\ ~panicked
    /\ UNCHANGED destroyed
    /\ b.kind = "RocBox"
    /\ Room
    /\ \E o \in clone(mem, b.contents) : RocBox_clone_did(b, o)

RocBox_drop_did(b, o) ==
    /\ mem' = o.mem
    /\ boxes' = Take(boxes, b)
    /\ returned' = Uninit
    /\ UNCHANGED <<unmoved, panicked>>
    /\ UNCHANGED <<layout_vars, scope_vars>>

\* A handle goes out of scope; a SendSafeRocBox drops the RocBox it wraps.
RocBox_drop(b) ==
    /\ ~panicked
    /\ UNCHANGED destroyed
    /\ \E o \in drop(mem, b.contents) : RocBox_drop_did(b, o)

\* RocBox::into_inner(self): the payload is read (v), then `self` goes out of
\* scope at the end of the function and is dropped (o).
into_inner(m, contents) ==
    {[val |-> v, out |-> o] : v \in read(m, contents), o \in drop(m, contents)}

RocBox_into_inner_did(b, r) ==
    /\ mem' = r.out.mem
    /\ boxes' = Take(boxes, b)
    /\ returned' = r.val
    /\ UNCHANGED <<unmoved, panicked>>
    /\ UNCHANGED <<layout_vars, scope_vars>>

RocBox_into_inner(b) ==
    /\ ~panicked
    /\ UNCHANGED destroyed
    /\ b.kind = "RocBox"
    /\ \E r \in into_inner(mem, b.contents) : RocBox_into_inner_did(b, r)

SendSafeRocBox_from_did(b, o) ==
    /\ mem' = o.mem
    /\ panicked' = o.panic
    /\ boxes' = IF o.panic THEN boxes
                ELSE Put(Take(boxes, b), SendSafeRocBox(o.ptr, b.thread))
    /\ returned' = Uninit
    /\ UNCHANGED unmoved
    /\ UNCHANGED <<layout_vars, scope_vars>>

\* SendSafeRocBox::from(b): the RocBox is consumed, the wrapper takes its place.
SendSafeRocBox_from(b) ==
    /\ ~panicked
    /\ UNCHANGED destroyed
    /\ b.kind = "RocBox"
    /\ \E o \in send_safe_from(mem, b.contents) : SendSafeRocBox_from_did(b, o)

SendSafeRocBox_clone_did(b, o) ==
    /\ mem' = o.mem
    /\ panicked' = o.panic
    /\ boxes' = IF o.panic THEN boxes ELSE Put(boxes, SendSafeRocBox(o.ptr, b.thread))
    /\ returned' = Uninit
    /\ UNCHANGED unmoved
    /\ UNCHANGED <<layout_vars, scope_vars>>

\* s.clone() on a SendSafeRocBox
SendSafeRocBox_clone(b) ==
    /\ ~panicked
    /\ UNCHANGED destroyed
    /\ b.kind = "SendSafeRocBox"
    /\ Room
    /\ \E o \in send_safe_clone(mem, b.contents) : SendSafeRocBox_clone_did(b, o)

\* impl From<SendSafeRocBox<T>> for RocBox<T>: from(ssb) is ssb.0
RocBox_from(b) ==
    /\ ~panicked
    /\ UNCHANGED destroyed
    /\ b.kind = "SendSafeRocBox"
    /\ boxes' = Put(Take(boxes, b), RocBox(b.contents, b.thread))
    /\ returned' = Uninit
    /\ UNCHANGED <<mem, unmoved, panicked>>
    /\ UNCHANGED <<layout_vars, scope_vars>>

\* unsafe impl Send for SendSafeRocBox<T>: the wrapper is moved to thread t.
Send(b, t) ==
    /\ ~panicked
    /\ UNCHANGED destroyed
    /\ b.kind = "SendSafeRocBox"
    /\ b.thread # t
    /\ boxes' = Put(Take(boxes, b), SendSafeRocBox(b.contents, t))
    /\ returned' = Uninit
    /\ UNCHANGED <<mem, unmoved, panicked>>
    /\ UNCHANGED <<layout_vars, scope_vars>>

Next ==
    \/ \E t \in Threads, v \in Values : RocBox_new(t, v)
    \/ \E b \in Live : RocBox_clone(b)
    \/ \E b \in Live : RocBox_drop(b)
    \/ \E b \in Live : RocBox_into_inner(b)
    \/ \E b \in Live : SendSafeRocBox_from(b)
    \/ \E b \in Live : SendSafeRocBox_clone(b)
    \/ \E b \in Live : RocBox_from(b)
    \/ \E b \in Live, t \in Threads : Send(b, t)

Spec == Init /\ [][Next]_vars

\* ------------------------------------------------- destructor runs per value
\* The same operations, with the destructor runs on each caller's value
\* counted.  T's destructor runs on each of the payloads vs (the uninitialised
\* slot and the static payload are not values a caller moved in).
Destroy(d, vs) == [v \in Values |-> IF v \in vs THEN Bump(d[v]) ELSE d[v]]

RocBox_new_dtor(t, v) ==
    /\ ~panicked
    /\ v \in unmoved
    /\ Room
    /\ \E o \in new(mem, v) :
          /\ RocBox_new_did(t, v, o)
          /\ destroyed' = Destroy(destroyed, o.dropped)

RocBox_clone_dtor(b) ==
    /\ ~panicked
    /\ b.kind = "RocBox"
    /\ Room
    /\ \E o \in clone(mem, b.contents) :
          /\ RocBox_clone_did(b, o)
          /\ destroyed' = Destroy(destroyed, o.dropped)

RocBox_drop_dtor(b) ==
    /\ ~panicked
    /\ \E o \in drop(mem, b.contents) :
          /\ RocBox_drop_did(b, o)
          /\ destroyed' = Destroy(destroyed, o.dropped)

\* into_inner hands the payload back by value: its owner drops that T once.
RocBox_into_inner_dtor(b) ==
    /\ ~panicked
    /\ b.kind = "RocBox"
    /\ \E r \in into_inner(mem, b.contents) :
          /\ RocBox_into_inner_did(b, r)
          /\ destroyed' = Destroy(Destroy(destroyed, r.out.dropped), {r.val})

SendSafeRocBox_from_dtor(b) ==
    /\ ~panicked
    /\ b.kind = "RocBox"
    /\ \E o \in send_safe_from(mem, b.contents) :
          /\ SendSafeRocBox_from_did(b, o)
          /\ destroyed' = Destroy(destroyed, o.dropped)

SendSafeRocBox_clone_dtor(b) ==
    /\ ~panicked
    /\ b.kind = "SendSafeRocBox"
    /\ Room
    /\ \E o \in send_safe_clone(mem, b.contents) :
          /\ SendSafeRocBox_clone_did(b, o)
          /\ destroyed' = Destroy(destroyed, o.dropped)

DestructorNext ==
    \/ \E t \in Threads, v \in Values : RocBox_new_dtor(t, v)
    \/ \E b \in Live : RocBox_clone_dtor(b)
    \/ \E b \in Live : RocBox_drop_dtor(b)
    \/ \E b \in Live : RocBox_into_inner_dtor(b)
    \/ \E b \in Live : SendSafeRocBox_from_dtor(b)
    \/ \E b \in Live : SendSafeRocBox_clone_dtor(b)
    \/ \E b \in Live : RocBox_from(b)
    \/ \E b \in Live, t \in Threads : Send(b, t)

DestructorSpec == Init /\ [][DestructorNext]_vars

\* ----------------------------------------------------------------- reading
\* The cell a handle reaches through RocBox::storage, in the current state.
Cell(b) == mem[storage(b.contents)].storage

\* impl Deref for RocBox: what *b can yield.
deref(b) == read(mem, b.contents)

\* The live handles (RocBox, or the RocBox inside a SendSafeRocBox) whose
\* payload address lies in the block at base address a.
HandlesAt(a) == {b \in Live : storage(b.contents) = a}
HandleCount(a) == BagCardinality([b \in HandlesAt(a) |-> boxes[b]])

\* The payload addresses of the blocks roc_alloc can return.
HeapContents == {a + alloc_alignment : a \in HeapBases}

\* In this step the block at payload address p is allocated and initialised by
\* RocBox::new as a copy of the payload of b, and b's own block stays as it was.
DeepCopied(b, p) ==
    /\ p # b.contents
    /\ ~mem[storage(p)].live
    /\ mem'[storage(p)].live
    /\ mem'[storage(p)].storage = ReferenceCounted(1)
    /\ mem'[storage(p)].contents = mem[storage(b.contents)].contents
    /\ mem'[storage(b.contents)].live
    /\ mem'[storage(b.contents)].contents = mem[storage(b.contents)].contents
    /\ mem'[storage(b.contents)].dtor = mem[storage(b.contents)].dtor
    /\ mem'[storage(b.contents)].dealloc = mem[storage(b.contents)].dealloc

\* In this step no block is allocated or released, and no destructor runs.
NoAllocation ==
    \A a \in Bases : /\ mem'[a].live = mem[a].live
                     /\ mem'[a].dtor = mem[a].dtor
                     /\ mem'[a].dealloc = mem[a].dealloc

\* ------------------------------------------------------------------ claims

\* C1: while a counted allocation made by RocBox::new is not released, the
\* count in its Storage cell equals the number of live handles pointing at it.
C1_CountIsHandles ==
    \A a \in HeapBases :
        mem[a].live => mem[a].storage = ReferenceCounted(HandleCount(a))

\* A counted block that was cloned: count 2, two handles.
C1_Witness ==
    \E a \in HeapBases :
        mem[a].live /\ mem[a].storage = ReferenceCounted(2) /\ HandleCount(a) = 2

C3_ReadonlyUntouched ==
    mem[StaticBase] = StaticBlock

\* Every handle of the read-only box has been dropped.
C3_Witness ==
    HandleCount(StaticBase) = 0 /\ mem[StaticBase].live

\* C4: no two threads hold live handles to the same non-read-only allocation.
C4_NoCrossThreadSharing ==
    \A b1, b2 \in Live :
        storage(b1.contents) = storage(b2.contents) /\ b1.thread # b2.thread
            => is_readonly(Cell(b1))

\* Wrappers have crossed between threads: the read-only box is held by two
\* threads, and a wrapper around a counted box is in the second thread.
C4_Witness ==
    /\ \E b1, b2 \in HandlesAt(StaticBase) : b1.thread # b2.thread
    /\ \E b \in Live : /\ b.kind = "SendSafeRocBox" /\ b.thread = 2
                        /\ storage(b.contents) \in HeapBases

\* C5: converting a unique or read-only RocBox to a SendSafeRocBox, and a
\* SendSafeRocBox back to a RocBox, keeps the payload address and leaves the
\* memory (cell, payload, allocations, destructor runs) as it was.
C5_RoundTripKeepsAllocation ==
    [][\A b \in Live :
          /\ (SendSafeRocBox_from(b) /\ (is_readonly(Cell(b)) \/ is_unique(Cell(b))))
                => /\ mem' = mem
                   /\ ~panicked'
                   /\ boxes' = Put(Take(boxes, b), SendSafeRocBox(b.contents, b.thread))
          /\ RocBox_from(b)
                => /\ mem' = mem
                   /\ boxes' = Put(Take(boxes, b), RocBox(b.contents, b.thread))]_vars

\* The read-only box went to the second thread and is a RocBox again there,
\* and a unique counted box sits in a wrapper.
C5_Witness ==
    /\ \E b \in HandlesAt(StaticBase) : b.kind = "RocBox" /\ b.thread = 2
    /\ \E b \in Live : /\ b.kind = "SendSafeRocBox"
                        /\ storage(b.contents) \in HeapBases
                        /\ is_unique(Cell(b))

\* C6: converting a RocBox whose cell is counted above 1 yields a wrapper
\* around a new block at another address, with count 1 and an equal payload,
\* and leaves the original block live for its other handles.
C6_SharedIsDeepCopied ==
    [][\A b \in Live :
          (SendSafeRocBox_from(b) /\ ~is_readonly(Cell(b)) /\ ~is_unique(Cell(b))
             /\ ~panicked')
            => \E p \in HeapContents :
                  /\ DeepCopied(b, p)
                  /\ boxes' = Put(Take(boxes, b), SendSafeRocBox(p, b.thread))
                  /\ \A c \in BagToSet(boxes') : mem'[storage(c.contents)].live]_vars

\* A wrapper around a unique block whose payload equals that of another live
\* block still held by a RocBox.
C6_Witness ==
    \E b, c \in Live :
        /\ b.kind = "SendSafeRocBox" /\ c.kind = "RocBox"
        /\ storage(b.contents) \in HeapBases /\ storage(c.contents) \in HeapBases
        /\ b.contents # c.contents
        /\ is_unique(Cell(b))
        /\ deref(b) = deref(c)

\* C7 as stated: SendSafeRocBox::clone shares the allocation when the cell is
\* read-only or unique and deep-copies only when the count is above 1.
C7_SameRuleAsConversion ==
    [][\A b \in Live :
          (SendSafeRocBox_clone(b) /\ ~panicked')
            => IF is_readonly(Cell(b)) \/ is_unique(Cell(b))
               THEN /\ NoAllocation
                    /\ boxes' = Put(boxes, SendSafeRocBox(b.contents, b.thread))
               ELSE \E p \in HeapContents :
                      /\ DeepCopied(b, p)
                      /\ boxes' = Put(boxes, SendSafeRocBox(p, b.thread))]_vars

\* C7 as amended: SendSafeRocBox::clone shares the allocation only when the
\* cell is read-only; when the cell is counted, unique included, it deep-copies.
C7_SharesOnlyReadonly ==
    [][\A b \in Live :
          (SendSafeRocBox_clone(b) /\ ~panicked')
            => IF is_readonly(Cell(b))
               THEN /\ mem' = mem
                    /\ boxes' = Put(boxes, SendSafeRocBox(b.contents, b.thread))
               ELSE \E p \in HeapContents :
                      /\ DeepCopied(b, p)
                      /\ boxes' = Put(boxes, SendSafeRocBox(p, b.thread))]_vars

\* Two wrappers around different unique blocks with equal payloads.
C7_Witness ==
    \E b, c \in Live :
        /\ b.kind = "SendSafeRocBox" /\ c.kind = "SendSafeRocBox"
        /\ storage(b.contents) \in HeapBases /\ storage(c.contents) \in HeapBases
        /\ b.contents # c.contents
        /\ is_unique(Cell(b)) /\ is_unique(Cell(c))
        /\ deref(b) = deref(c)

\* C8 as stated: into_inner returns the stored payload and changes neither
\* the count nor anything else in memory: no destructor run, no roc_dealloc.
C8_IntoInnerLeavesBookkeeping ==
    [][\A b \in Live :
          RocBox_into_inner(b)
            => /\ returned' = mem[storage(b.contents)].contents
               /\ mem' = mem]_vars

\* C9 as stated: whenever a conversion or SendSafeRocBox::clone calls
\* deep_copy, the cell of the box it is called on is read-only or unique.
C9_DeepCopyPrecondition ==
    [][\A b \in Live :
          /\ \A o \in send_safe_from(mem, b.contents) :
                (~panicked /\ b.kind = "RocBox" /\ SendSafeRocBox_from_did(b, o))
                  => \A s \in o.deep : is_readonly(s) \/ is_unique(s)
          /\ \A o \in send_safe_clone(mem, b.contents) :
                (~panicked /\ b.kind = "SendSafeRocBox" /\ Room
                   /\ SendSafeRocBox_clone_did(b, o))
                  => \A s \in o.deep : is_readonly(s) \/ is_unique(s)]_vars

\* C10: every live handle points at a block that is not released and
\* dereferences to one initialised value; the value a handle dereferences to
\* does not change while the handle lives; the box new(v) returns dereferences
\* to v and the box b.clone() returns to what b does.
C10_LiveHandlesDeref ==
    [][/\ \A b \in BagToSet(boxes') :
             /\ mem'[storage(b.contents)].live
             /\ Uninit \notin deref(b)'
             /\ Cardinality(deref(b)') = 1
       /\ \A b \in Live \cap BagToSet(boxes') : deref(b)' = deref(b)
       /\ \A t \in Threads, v \in Values :
             \A o \in new(mem, v) :
                (~panicked /\ v \in unmoved /\ Room /\ ~o.panic
                   /\ RocBox_new_did(t, v, o))
                  => deref(RocBox(o.ptr, t))' = {v}
       /\ \A b \in Live :
             \A o \in clone(mem, b.contents) :
                (RocBox_clone(b) /\ RocBox_clone_did(b, o))
                  => deref(RocBox(o.ptr, b.thread))' = deref(b)]_vars

\* Of two handles made by new and clone one was dropped: the block has count
\* 1 again, one handle, and still holds a value given to new, while the other
\* value's block has been released.
C10_Witness ==
    \E a, c \in HeapBases :
        /\ mem[a].live /\ HandleCount(a) = 1 /\ is_unique(mem[a].storage)
        /\ mem[a].contents \in Values
        /\ ~mem[c].live /\ mem[c].dealloc = 1

\* C11: a Storage cell never changes mode: while its block is not released a
\* read-only cell stays read-only and a counted cell stays counted with a
\* count of at least 1, whatever operation runs.
C11_ModeNeverChanges ==
    [][\A a \in Bases :
          /\ mem[a].live /\ mem'[a].live =>
                /\ is_readonly(mem'[a].storage) = is_readonly(mem[a].storage)
                /\ ~is_readonly(mem'[a].storage) => mem'[a].storage.rc >= 1
          /\ ~mem[a].live /\ mem'[a].live =>
                ~is_readonly(mem'[a].storage) /\ mem'[a].storage.rc >= 1]_vars

\* The read-only box sits in a wrapper, still read-only, and a counted box
\* has been cloned (count 2) and is still counted.
C11_Witness ==
    /\ \E b \in HandlesAt(StaticBase) :
          b.kind = "SendSafeRocBox" /\ is_readonly(Cell(b))
    /\ \E a \in HeapBases :
          mem[a].live /\ mem[a].storage = ReferenceCounted(2) /\ HandleCount(a) = 2

\* C12: when roc_alloc returns null, RocBox::new panics: no handle comes into
\* being, and neither a cell nor a payload is written through the null
\* address; a box is returned only for a block roc_alloc handed out.
C12_NullAllocPanics ==
    /\ [](\A v \in Values :
            /\ NULL \in roc_alloc(mem) => \E o \in new(mem, v) : o.panic
            /\ \A o \in new(mem, v) :
                  /\ NULL \notin o.wrote
                  /\ o.panic => o.mem = mem /\ o.wrote = {} /\ o.ptr = NULL
                  /\ ~o.panic => storage(o.ptr) \in roc_alloc(mem) \ {NULL})
    /\ [][\A t \in Threads, v \in Values :
             (panicked' /\ RocBox_new(t, v))
               => boxes' = boxes /\ mem' = mem]_vars

\* RocBox::new panicked on its first allocation: no block was ever handed out
\* and the only handle is the one of the read-only box.
C12_Witness ==
    /\ panicked
    /\ unmoved # Values
    /\ \A a \in HeapBases : ~mem[a].live /\ mem[a].dealloc = 0
    /\ BagCardinality(boxes) = 1

\* ------------------------------------------------- layout of one allocation
\* The address arithmetic of RocBox::new, RocBox::storage and RocBox::drop for
\* every payload type, on 32-bit and 64-bit targets.

\* Alignments of payload types run up to 2^MaxAlignLog.
MaxAlignLog == 4
\* Sizes of payload types run up to MaxSizeUnits times their alignment.
MaxSizeUnits == 2

RECURSIVE Pow2(_)
Pow2(n) == IF n = 0 THEN 1 ELSE 2 * Pow2(n - 1)

\* A payload type T: mem::size_of::<T>() is a multiple of mem::align_of::<T>().
PayloadTypes ==
    {[size |-> k * Pow2(e), align |-> Pow2(e)] :
        e \in 0..MaxAlignLog, k \in 0..MaxSizeUnits}

\* Storage: one machine word (an isize) on a 32-bit and on a 64-bit target.
StorageTypes == {[size |-> w, align |-> w] : w \in {4, 8}}

\* mem::align_of::<T>().max(mem::align_of::<Storage>())
alloc_alignment_T(T, S) == IF T.align >= S.align THEN T.align ELSE S.align

\* RocBox::new: let bytes = mem::size_of::<T>() + alignment
bytes_T(T, S) == T.size + alloc_alignment_T(T, S)

\* roc_alloc(bytes, alignment): a block at a multiple of alignment, or null.
roc_alloc_T(size, alignment) == {k * alignment : k \in 1..MaxAddr} \cup {NULL}

\* RocBox::new: ptr.cast::<Storage>().write(refcount_one)
new_storage_ptr(T, S, ptr) == ptr

\* RocBox::new: ptr.cast::<u8>().add(alignment).cast::<T>()
new_contents_ptr(T, S, ptr) == ptr + alloc_alignment_T(T, S)

\* A faulty storage() that steps back over the cell's size, not the alignment.
storage_sub_cell_size(T, S, contents) == contents - S.size

\* RocBox::storage: self.contents.as_ptr().cast::<u8>().sub(alignment)
storage_T(T, S, contents) == contents - alloc_alignment_T(T, S)

\* RocBox::drop: roc_dealloc(contents.as_ptr().cast::<u8>().sub(alignment).cast(),
\* alignment as u32)
drop_dealloc_T(T, S, contents) ==
    [ptr |-> contents - alloc_alignment_T(T, S),
     alignment |-> alloc_alignment_T(T, S)]

NoRequest == [ptr |-> NULL, alignment |-> 0]

LayoutInit ==
    /\ layout \in {[pc |-> "start", T |-> T, S |-> S,
                    alloc |-> [bytes |-> 0, alignment |-> 0], ptr |-> NULL,
                    storage_ptr |-> NULL, contents |-> NULL,
                    storage |-> NULL, dealloc |-> NoRequest]
                   : T \in PayloadTypes, S \in StorageTypes}
    /\ mem = [a \in Bases |-> IF a = StaticBase THEN StaticBlock ELSE FreeBlock]
    /\ boxes = EmptyBag
    /\ unmoved = {}
    /\ panicked = FALSE
    /\ returned = Uninit
    /\ destroyed = [v \in Values |-> 0]
    /\ scope = NoScope
    /\ all_ident_ids = <<>>
    /\ result = NoResult

\* RocBox::<T>::new: the request to roc_alloc, and where the cell and the
\* payload are written in the block it returns.
Layout_new ==
    /\ layout.pc = "start"
    /\ \E ptr \in roc_alloc_T(bytes_T(layout.T, layout.S),
                              alloc_alignment_T(layout.T, layout.S)) :
          layout' =
            IF ptr = NULL
            THEN [layout EXCEPT
                    !.pc = "panicked",
                    !.alloc = [bytes |-> bytes_T(layout.T, layout.S),
                               alignment |-> alloc_alignment_T(layout.T, layout.S)]]
            ELSE [layout EXCEPT
                    !.pc = "new",
                    !.alloc = [bytes |-> bytes_T(layout.T, layout.S),
                               alignment |-> alloc_alignment_T(layout.T, layout.S)],
                    !.ptr = ptr,
                    !.storage_ptr = new_storage_ptr(layout.T, layout.S, ptr),
                    !.contents = new_contents_ptr(layout.T, layout.S, ptr)]
    /\ UNCHANGED <<box_vars, scope_vars>>

\* RocBox::<T>::storage(&self), as clone and the conversions call it.
Layout_storage ==
    /\ layout.pc = "new"
    /\ layout' = [layout EXCEPT
                    !.pc = "storage",
                    !.storage = storage_T(layout.T, layout.S, layout.contents)]
    /\ UNCHANGED <<box_vars, scope_vars>>

\* RocBox::<T>::drop of the last handle: self.storage(), then roc_dealloc.
Layout_drop ==
    /\ layout.pc \in {"new", "storage"}
    /\ layout' = [layout EXCEPT
                    !.pc = "dropped",
                    !.storage = storage_T(layout.T, layout.S, layout.contents),
                    !.dealloc = drop_dealloc_T(layout.T, layout.S, layout.contents)]
    /\ UNCHANGED <<box_vars, scope_vars>>

LayoutNext ==
    \/ Layout_new
    \/ Layout_storage
    \/ Layout_drop

LayoutSpec == LayoutInit /\ [][LayoutNext]_vars

\* C16: for every payload type, the address new writes the cell at, the
\* address storage() reads it from and the address drop hands to roc_dealloc
\* are the base address roc_alloc returned, and roc_dealloc gets the
\* alignment roc_alloc got.
C16_OneBaseAddress ==
    /\ layout.pc \in {"new", "storage", "dropped"} =>
          layout.ptr # NULL /\ layout.storage_ptr = layout.ptr
    /\ layout.pc \in {"storage", "dropped"} => layout.storage = layout.ptr
    /\ layout.pc = "dropped" =>
          /\ layout.dealloc.ptr = layout.ptr
          /\ layout.dealloc.alignment = layout.alloc.alignment

\* A box of a payload type more strictly aligned than Storage has been
\* allocated, read and released.
C16_Witness ==
    /\ layout.pc = "dropped"
    /\ layout.T.align > layout.S.align
    /\ layout.T.size > 0

\* C17 as stated: the cell ends where the payload starts (cell address +
\* size_of(Storage) = payload address = base + alignment), and cell and
\* payload lie inside the allocation's size_of(T) + alignment bytes without
\* overlapping.
C17_CellJustBeforePayload ==
    layout.pc \in {"new", "storage", "dropped"} =>
        /\ layout.alloc.alignment = alloc_alignment_T(layout.T, layout.S)
        /\ layout.alloc.bytes = layout.T.size + layout.alloc.alignment
        /\ layout.contents = layout.ptr + layout.alloc.alignment
        /\ layout.storage_ptr + layout.S.size = layout.contents
        /\ layout.storage_ptr >= layout.ptr
        /\ layout.storage_ptr + layout.S.size <= layout.contents
        /\ layout.contents + layout.T.size <= layout.ptr + layout.alloc.bytes

\* ------------------------------------------------------ claims on the boxes

\* What any operation a thread can start on the handle b may do: the outcomes
\* of clone, drop, into_inner, the conversion and the wrapper's clone.
Outcomes(b) ==
    drop(mem, b.contents)
      \cup (IF b.kind = "RocBox"
            THEN clone(mem, b.contents)
                   \cup {r.out : r \in into_inner(mem, b.contents)}
                   \cup send_safe_from(mem, b.contents)
            ELSE send_safe_clone(mem, b.contents))

\* C18: the drop that releases a block runs the destructor on the payload the
\* block held, before roc_dealloc, each once; and no later operation reads or
\* writes a released block: every handle an operation can run on points at a
\* live block, and every cell an operation writes is in a block still live
\* when the operation ends.
C18_DestructorThenDealloc ==
    \A b \in Live :
        LET a == storage(b.contents)
        IN  /\ mem[a].live
            /\ \A o \in drop(mem, b.contents) :
                  ~o.mem[a].live =>
                     /\ o.dropped = {mem[a].contents}
                     /\ o.wrote = {}
                     /\ o.mem[a].dtor = 1 /\ o.mem[a].dealloc = 1
            /\ \A o \in Outcomes(b) : \A w \in o.wrote : o.mem[w].live

\* A block has been released, and operations went on afterwards on another
\* block: it was allocated and cloned.
C18_Witness ==
    \E a, c \in HeapBases :
        /\ ~mem[a].live /\ mem[a].dtor = 1 /\ mem[a].dealloc = 1
        /\ mem[c].live /\ mem[c].storage = ReferenceCounted(2)
        /\ HandleCount(c) = 2

\* C19: converting a RocBox whose cell is Counted(n), n > 1, consumes the
\* handle as one reference: afterwards the original block is live with count
\* n - 1, which is the number of live handles that point at it.
C19_SharedConversionConsumes ==
    [][\A b \in Live :
          LET a == storage(b.contents)
          IN  (SendSafeRocBox_from(b) /\ ~is_readonly(Cell(b)) /\ Cell(b).rc > 1
                 /\ ~panicked')
                => /\ mem'[a].live
                   /\ mem'[a].storage = ReferenceCounted(Cell(b).rc - 1)
                   /\ mem'[a].dtor = 0 /\ mem'[a].dealloc = 0
                   /\ HandleCount(a)' = Cell(b).rc - 1]_vars

\* A shared box was converted: the copy sits in a wrapper, and the original
\* block is left with count 1 and its one other handle.
C19_Witness ==
    \E b, c \in Live :
        /\ b.kind = "SendSafeRocBox" /\ c.kind = "RocBox"
        /\ storage(b.contents) \in HeapBases /\ storage(c.contents) \in HeapBases
        /\ b.contents # c.contents
        /\ Cell(b) = ReferenceCounted(1) /\ Cell(c) = ReferenceCounted(1)
        /\ HandleCount(storage(c.contents)) = 1
        /\ mem[storage(b.contents)].contents = mem[storage(c.contents)].contents

\* C20 as stated: no operation writes the Storage cell of a read-only box, so
\* handles of one read-only box in two threads never have one thread write
\* the cell while the other reads or writes it.
C20_NoWriteToReadonlyCell ==
    /\ \A b \in Live :
          is_readonly(Cell(b)) =>
             \A o \in Outcomes(b) : storage(b.contents) \notin o.wrote
    /\ \A b1, b2 \in Live :
          (b1.thread # b2.thread /\ storage(b1.contents) = storage(b2.contents)
             /\ is_readonly(Cell(b1)))
            => \A o \in Outcomes(b1) : storage(b1.contents) \notin o.wrote

\* -------------------------------------------------------------------- Scope
\* Scope and IdentStore of compiler/can/src/scope.rs: the idents in scope,
\* each with the Symbol it is bound to and the Region that bound it.

\* Idents are made of the bytes 1..MaxIdentByte.
MaxIdentByte == 2
\* Regions of the source text.
MaxRegions == 2
\* Entries an IdentStore holds.
MaxIdents == 3
\* IdentIds the module hands out.
MaxIdentIds == 2
\* Symbols other modules offer for import.
MaxImports == 1

\* Option: None, or Some(x).
None == <<>>
Some(x) == <<x>>

\* ModuleIds: the module being canonicalised, the builtins, another module.
HomeModule == 1
BuiltinModule == 2
OtherModule == 3

\* Ident: the bytes of a name; Ident::default() is the empty name.
Ident_default == <<>>
Idents ==
    {Ident_default} \cup {<<c>> : c \in 1..MaxIdentByte} \cup {<<1, 1>>}

Regions == 1..MaxRegions
\* Region::zero()
Region_zero == 0

\* Symbol::new(module_id, ident_id)
Symbol_new(module_id, ident_id) == [module_id |-> module_id, ident_id |-> ident_id]

\* The symbols a caller can import from another module.
ImportSymbols == {Symbol_new(OtherModule, i) : i \in 1..MaxImports}

\* Loc { value, region }
Loc(value, region) == [value |-> value, region |-> region]

Ok(v) == [tag |-> "Ok", value |-> v]
Err(e) == [tag |-> "Err", error |-> e]

\* Symbol::default_in_scope(): the builtins every scope starts with.
default_in_scope ==
    <<[ident |-> <<1, 1>>, symbol |-> Symbol_new(BuiltinModule, 1),
       region |-> Region_zero]>>

\* IdentIds: the sequence of the names added, a name's IdentId its position.
IdentIds_get_id(ids, ident) ==
    LET hits == {i \in 1..Len(ids) : ids[i] = ident}
    IN  IF hits = {} THEN None
        ELSE Some(CHOOSE i \in hits : \A j \in hits : i <= j)

\* IdentIds::add_ident(&ident): a new IdentId for the name.
IdentIds_add_ident(ids, ident) == [ids |-> Append(ids, ident), id |-> Len(ids) + 1]

\* IdentIds::add(ident): a new IdentId for the name.
IdentIds_add(ids, ident) == [ids |-> Append(ids, ident), id |-> Len(ids) + 1]

\* The idents the module header exposes, which got their IdentIds before
\* canonicalisation starts.
exposed_ident_ids == <<<<1>>>>

\* soa::Slice::extend_new(&mut string, bytes): the bytes appended, and the
\* slice that holds them.
Slice_extend_new(string, ident_bytes) ==
    [string |-> string \o ident_bytes,
     slice |-> [start |-> Len(string), length |-> Len(ident_bytes)]]

\* &self.string[slice.indices()]
Slice_bytes(string, slice) ==
    SubSeq(string, slice.start + 1, slice.start + slice.length)

\* IdentStore::insert_unchecked
insert_unchecked(store, ident, symbol, region) ==
    LET e == Slice_extend_new(store.string, ident)
    IN  [string |-> e.string,
         idents |-> Append(store.idents, e.slice),
         symbols |-> Append(store.symbols, symbol),
         regions |-> Append(store.regions, region)]

RECURSIVE IdentStore_fill(_, _)
IdentStore_fill(store, defaults) ==
    IF defaults = <<>> THEN store
    ELSE IdentStore_fill(insert_unchecked(store, Head(defaults).ident,
                                          Head(defaults).symbol,
                                          Head(defaults).region),
                         Tail(defaults))

\* IdentStore::new
IdentStore_new ==
    IdentStore_fill([string |-> <<>>, idents |-> <<>>, symbols |-> <<>>,
                     regions |-> <<>>], default_in_scope)

\* IdentStore::get_index: the first entry whose slice has the ident's length
\* and bytes.
get_index(store, ident) ==
    LET hits == {i \in 1..Len(store.idents) :
                    /\ store.idents[i].length = Len(ident)
                    /\ Slice_bytes(store.string, store.idents[i]) = ident}
    IN  IF hits = {} THEN None
        ELSE Some(CHOOSE i \in hits : \A j \in hits : i <= j)

\* IdentStore::get_symbol
get_symbol(store, ident) ==
    IF get_index(store, ident) = None THEN None
    ELSE Some(store.symbols[get_index(store, ident)[1]])

\* IdentStore::get_symbol_and_region
get_symbol_and_region(store, ident) ==
    IF get_index(store, ident) = None THEN None
    ELSE Some(<<store.symbols[get_index(store, ident)[1]],
                store.regions[get_index(store, ident)[1]]>>)

\* IdentStore::len
IdentStore_len(store) == Len(store.idents)

\* IdentStore::iter_idents: the names of the entries whose slice is not empty.
iter_idents(store) ==
    SelectSeq([i \in 1..Len(store.idents) |->
                  Slice_bytes(store.string, store.idents[i])],
              LAMBDA name : name # <<>>)

\* AbilitiesStore::default()
AbilitiesStore_default == [members |-> {}, specializations |-> {}]

\* AbilitiesStore::is_ability_member_name
is_ability_member_name(store, symbol) == symbol \in store.members

\* AbilitiesStore::register_specializing_symbol
register_specializing_symbol(store, specializing_symbol, ability_member) ==
    [store EXCEPT !.specializations = @ \cup {<<specializing_symbol, ability_member>>}]

\* Scope::new
Scope_new(home) ==
    [home |-> home, idents |-> IdentStore_new,
     abilities_store |-> AbilitiesStore_default]

\* Scope::contains_ident, contains_symbol, num_idents
contains_ident(sc, ident) == get_index(sc.idents, ident) # None
contains_symbol(sc, symbol) ==
    \E i \in 1..Len(sc.idents.symbols) : sc.idents.symbols[i] = symbol
num_idents(sc) == IdentStore_len(sc.idents)

\* Scope::lookup
lookup(sc, ident, region) ==
    IF get_symbol(sc.idents, ident) # None
    THEN Ok(get_symbol(sc.idents, ident)[1])
    ELSE Err([LookupNotInScope |-> Loc(ident, region),
              in_scope |-> iter_idents(sc.idents)])

\* Each operation that changes the scope yields the scope and the caller's
\* IdentIds afterwards, and its return value.
Returned(sc, ids, ret) == [scope |-> sc, all_ident_ids |-> ids, result |-> ret]

\* Scope::commit_introduction
commit_introduction(sc, exposed, ids, ident, region) ==
    LET added == IF IdentIds_get_id(exposed, ident) # None
                 THEN [ids |-> ids, id |-> IdentIds_get_id(exposed, ident)[1]]
                 ELSE IdentIds_add_ident(ids, ident)
        symbol == Symbol_new(sc.home, added.id)
    IN  Returned([sc EXCEPT !.idents = insert_unchecked(@, ident, symbol, region)],
                 added.ids, symbol)

\* A faulty introduce that hands back the region of the shadow as the
\* original one.
introduce_loses_region(sc, exposed, ids, ident, region) ==
    LET found == get_index(sc.idents, ident)
        index == found[1]
    IN  IF found # None
        THEN LET added == IdentIds_add_ident(ids, ident)
                 symbol == Symbol_new(sc.home, added.id)
             IN  Returned([sc EXCEPT !.idents.symbols[index] = symbol,
                                     !.idents.regions[index] = region],
                          added.ids,
                          Err(<<region, Loc(ident, region), symbol>>))
        ELSE LET c == commit_introduction(sc, exposed, ids, ident, region)
             IN  Returned(c.scope, c.all_ident_ids, Ok(c.result))

\* A faulty introduce that leaves the entry of the shadowed ident as it was.
introduce_no_rebind(sc, exposed, ids, ident, region) ==
    LET found == get_index(sc.idents, ident)
        index == found[1]
    IN  IF found # None
        THEN LET original_region == sc.idents.regions[index]
                 added == IdentIds_add_ident(ids, ident)
                 symbol == Symbol_new(sc.home, added.id)
             IN  Returned(sc, added.ids,
                          Err(<<original_region, Loc(ident, region), symbol>>))
        ELSE LET c == commit_introduction(sc, exposed, ids, ident, region)
             IN  Returned(c.scope, c.all_ident_ids, Ok(c.result))

\* Scope::introduce
introduce(sc, exposed, ids, ident, region) ==
    LET found == get_index(sc.idents, ident)
        index == found[1]
    IN  IF found # None
        THEN LET original_region == sc.idents.regions[index]
                 shadow == Loc(ident, region)
                 added == IdentIds_add_ident(ids, ident)
                 symbol == Symbol_new(sc.home, added.id)
             IN  Returned([sc EXCEPT !.idents.symbols[index] = symbol,
                                     !.idents.regions[index] = region],
                          added.ids,
                          Err(<<original_region, shadow, symbol>>))
        ELSE LET c == commit_introduction(sc, exposed, ids, ident, region)
             IN  Returned(c.scope, c.all_ident_ids, Ok(c.result))

\* A faulty introduce_without_shadow_symbol that rebinds the ident as
\* introduce does.
introduce_without_shadow_symbol_rebinds(sc, exposed, ids, ident, region) ==
    LET found == get_index(sc.idents, ident)
        index == found[1]
    IN  IF found # None
        THEN Returned([sc EXCEPT !.idents.regions[index] = region], ids,
                      Err(<<sc.idents.regions[index], Loc(ident, region)>>))
        ELSE LET c == commit_introduction(sc, exposed, ids, ident, region)
             IN  Returned(c.scope, c.all_ident_ids, Ok(c.result))

\* Scope::introduce_without_shadow_symbol
introduce_without_shadow_symbol(sc, exposed, ids, ident, region) ==
    LET shadowed == get_symbol_and_region(sc.idents, ident)
    IN  IF shadowed # None
        THEN LET original_region == shadowed[1][2]
                 shadow == Loc(ident, region)
             IN  Returned(sc, ids, Err(<<original_region, shadow>>))
        ELSE LET c == commit_introduction(sc, exposed, ids, ident, region)
             IN  Returned(c.scope, c.all_ident_ids, Ok(c.result))

\* A faulty introduce_or_shadow_ability_member that files the shadow of an
\* ability member under the ident's own name instead of the empty dummy.
introduce_or_shadow_ability_member_names_shadow(sc, exposed, ids, ident, region) ==
    LET found == get_index(sc.idents, ident)
        index == found[1]
    IN  IF found # None
        THEN LET original_symbol == sc.idents.symbols[index]
                 original_region == sc.idents.regions[index]
                 added == IdentIds_add(ids, ident)
                 shadow_symbol == Symbol_new(sc.home, added.id)
             IN  IF is_ability_member_name(sc.abilities_store, original_symbol)
                 THEN Returned(
                        [sc EXCEPT
                           !.abilities_store =
                              register_specializing_symbol(@, shadow_symbol,
                                                           original_symbol),
                           !.idents = insert_unchecked(@, ident,
                                                       shadow_symbol, region)],
                        added.ids,
                        Ok(<<shadow_symbol, Some(original_symbol)>>))
                 ELSE Returned(
                        [sc EXCEPT !.idents.symbols[index] = shadow_symbol,
                                   !.idents.regions[index] = region],
                        added.ids,
                        Err(<<original_region, Loc(ident, region), shadow_symbol>>))
        ELSE LET c == commit_introduction(sc, exposed, ids, ident, region)
             IN  Returned(c.scope, c.all_ident_ids, Ok(<<c.result, None>>))

\* Scope::introduce_or_shadow_ability_member
introduce_or_shadow_ability_member(sc, exposed, ids, ident, region) ==
    LET found == get_index(sc.idents, ident)
        index == found[1]
    IN  IF found # None
        THEN LET original_symbol == sc.idents.symbols[index]
                 original_region == sc.idents.regions[index]
                 added == IdentIds_add(ids, ident)
                 shadow_symbol == Symbol_new(sc.home, added.id)
             IN  IF is_ability_member_name(sc.abilities_store, original_symbol)
                 THEN Returned(
                        [sc EXCEPT
                           !.abilities_store =
                              register_specializing_symbol(@, shadow_symbol,
                                                           original_symbol),
                           !.idents = insert_unchecked(@, Ident_default,
                                                       shadow_symbol, region)],
                        added.ids,
                        Ok(<<shadow_symbol, Some(original_symbol)>>))
                 ELSE Returned(
                        [sc EXCEPT !.idents.symbols[index] = shadow_symbol,
                                   !.idents.regions[index] = region],
                        added.ids,
                        Err(<<original_region, Loc(ident, region), shadow_symbol>>))
        ELSE LET c == commit_introduction(sc, exposed, ids, ident, region)
             IN  Returned(c.scope, c.all_ident_ids, Ok(<<c.result, None>>))

\* Scope::import
import(sc, ident, symbol, region) ==
    LET shadowed == get_symbol_and_region(sc.idents, ident)
    IN  IF shadowed # None
        THEN Returned(sc, None, Err(shadowed[1]))
        ELSE Returned([sc EXCEPT !.idents = insert_unchecked(@, ident, symbol, region)],
                      None, Ok(<<>>))

ScopeInit ==
    /\ scope = Scope_new(HomeModule)
    /\ all_ident_ids = exposed_ident_ids
    /\ result = NoResult
    /\ layout = NoLayout
    /\ mem = [a \in Bases |-> IF a = StaticBase THEN StaticBlock ELSE FreeBlock]
    /\ boxes = EmptyBag
    /\ unmoved = {}
    /\ panicked = FALSE
    /\ returned = Uninit
    /\ destroyed = [v \in Values |-> 0]

\* The step a scope operation makes, within the bounds on the store and on
\* the IdentIds.
Scope_did(op, r) ==
    /\ num_idents(r.scope) <= MaxIdents
    /\ Len(r.all_ident_ids) <= MaxIdentIds
    /\ scope' = r.scope
    /\ all_ident_ids' = r.all_ident_ids
    /\ result' = [op |-> op, ret |-> r.result]
    /\ UNCHANGED <<box_vars, layout_vars>>

Scope_introduce(ident, region) ==
    /\ scope.home = HomeModule
    /\ Scope_did("introduce",
              introduce(scope, exposed_ident_ids, all_ident_ids, ident, region))

Scope_introduce_without_shadow_symbol(ident, region) ==
    /\ scope.home = HomeModule
    /\ Scope_did("introduce_without_shadow_symbol",
              introduce_without_shadow_symbol(scope, exposed_ident_ids,
                                              all_ident_ids, ident, region))

Scope_introduce_or_shadow_ability_member(ident, region) ==
    /\ scope.home = HomeModule
    /\ Scope_did("introduce_or_shadow_ability_member",
              introduce_or_shadow_ability_member(scope, exposed_ident_ids,
                                                 all_ident_ids, ident, region))

Scope_import(ident, symbol, region) ==
    /\ scope.home = HomeModule
    /\ Scope_did("import",
              [import(scope, ident, symbol, region)
                 EXCEPT !.all_ident_ids = all_ident_ids])

\* The canonicalisation of an ability definition records a symbol of this
\* module that is in scope as the name of an ability member.
Scope_register_ability_member(i) ==
    /\ i \in 1..num_idents(scope)
    /\ scope.idents.symbols[i].module_id = scope.home
    /\ scope.idents.idents[i].length > 0
    /\ scope.idents.symbols[i] \notin scope.abilities_store.members
    /\ scope' = [scope EXCEPT !.abilities_store.members =
                                  @ \cup {scope.idents.symbols[i]}]
    /\ result' = NoResult
    /\ UNCHANGED <<all_ident_ids, box_vars, layout_vars>>

ScopeNext ==
    \/ \E ident \in Idents, region \in Regions : Scope_introduce(ident, region)
    \/ \E ident \in Idents, region \in Regions :
          Scope_introduce_without_shadow_symbol(ident, region)
    \/ \E ident \in Idents, region \in Regions :
          Scope_introduce_or_shadow_ability_member(ident, region)
    \/ \E ident \in Idents, symbol \in ImportSymbols, region \in Regions :
          Scope_import(ident, symbol, region)
    \/ \E i \in 1..MaxIdents : Scope_register_ability_member(i)

ScopeSpec == ScopeInit /\ [][ScopeNext]_vars

\* ------------------------------------------------------ claims on the scope

C14_SameAsIntroduce ==
    \A ident \in Idents, region \in Regions :
        LET found == get_index(scope.idents, ident)
            a == introduce(scope, exposed_ident_ids, all_ident_ids, ident, region)
            b == introduce_or_shadow_ability_member(scope, exposed_ident_ids,
                                                    all_ident_ids, ident, region)
        IN  (found = None
               \/ ~is_ability_member_name(scope.abilities_store,
                                          scope.idents.symbols[found[1]]))
              => /\ a.scope = b.scope
                 /\ a.result.tag = b.result.tag
                 /\ a.result.tag = "Ok" => b.result.value = <<a.result.value, None>>
                 /\ a.result.tag = "Err" => b.result.error = a.result.error

\* introduce_or_shadow_ability_member has just refused the shadow of an ident
\* that is no ability member, in a scope that holds an ability member.
C14_Witness ==
    /\ result.op = "introduce_or_shadow_ability_member"
    /\ result.ret.tag = "Err"
    /\ scope.abilities_store.members # {}

\* The symbol and region every ident is bound to in a scope.
Bindings(sc) == [ident \in Idents |-> get_symbol_and_region(sc.idents, ident)]

\* C15: import and introduce_without_shadow_symbol of an ident already in
\* scope return Err carrying the region (import: the symbol too) bound to it
\* and leave the scope as it was; of an ident not in scope they add one entry
\* that binds it to the new symbol and region, and change no other ident.
C15_NoShadowLeavesScope ==
    \A ident \in Idents, region \in Regions :
        LET found == get_index(scope.idents, ident)
            w == introduce_without_shadow_symbol(scope, exposed_ident_ids,
                                                 all_ident_ids, ident, region)
        IN  /\ found # None =>
                  /\ w.result = Err(<<scope.idents.regions[found[1]],
                                      Loc(ident, region)>>)
                  /\ w.scope = scope
                  /\ num_idents(w.scope) = num_idents(scope)
                  /\ Bindings(w.scope) = Bindings(scope)
            /\ found = None =>
                  /\ w.result.tag = "Ok"
                  /\ num_idents(w.scope) = num_idents(scope) + 1
                  /\ Bindings(w.scope) =
                        [Bindings(scope) EXCEPT
                           ![ident] = Some(<<w.result.value, region>>)]
            /\ \A symbol \in ImportSymbols :
                  LET i == import(scope, ident, symbol, region)
                  IN  /\ found # None =>
                            /\ i.result = Err(<<scope.idents.symbols[found[1]],
                                                scope.idents.regions[found[1]]>>)
                            /\ i.scope = scope
                            /\ num_idents(i.scope) = num_idents(scope)
                            /\ Bindings(i.scope) = Bindings(scope)
                      /\ found = None =>
                            /\ i.result.tag = "Ok"
                            /\ num_idents(i.scope) = num_idents(scope) + 1
                            /\ Bindings(i.scope) =
                                  [Bindings(scope) EXCEPT
                                     ![ident] = Some(<<symbol, region>>)]

\* import has just refused an ident that an earlier import had bound to a
\* symbol of another module.
C15_Witness ==
    /\ result.op = "import"
    /\ result.ret.tag = "Err"
    /\ result.ret.error[1] \in ImportSymbols
    /\ contains_symbol(scope, result.ret.error[1])


\* ------------------------------------------------- claims on the destructors
\* C21: over any sequence of the operations, T's destructor runs at most once
\* on each value a caller moved into RocBox::new, the drop of a T handed back
\* by into_inner included.
C21_DestroyedAtMostOnce == \A v \in Values : destroyed[v] <= 1

\* C22: RocBox::new(v) runs no payload destructor: whatever block roc_alloc
\* gives, constructing a box over a value runs T's destructor on nothing.
C22_NewRunsNoDestructor ==
    (~panicked /\ Room) =>
        \A v \in unmoved : \A o \in new(mem, v) : o.dropped = {}

\* ----------------------------------------------- claims on ability members
\* C23: introduce_or_shadow_ability_member of an ident bound to an ability
\* member returns Ok((shadow_symbol, Some(member))) with a shadow symbol the
\* scope did not hold, registers the shadow as specializing the member, and
\* leaves the name alone: the ident is still bound to the member and its
\* region, lookup of it gives the member, the shadow symbol is in the scope,
\* and iter_idents lists the names it listed before.
C23_ShadowKeepsMemberName ==
    \A ident \in Idents, region \in Regions :
        LET found == get_index(scope.idents, ident)
            member == scope.idents.symbols[found[1]]
            r == introduce_or_shadow_ability_member(scope, exposed_ident_ids,
                                                    all_ident_ids, ident, region)
            shadow == r.result.value[1]
        IN  (/\ found # None
             /\ is_ability_member_name(scope.abilities_store, member)) =>
               /\ r.result.tag = "Ok"
               /\ r.result.value[2] = Some(member)
               /\ shadow # member
               /\ ~contains_symbol(scope, shadow)
               /\ <<shadow, member>> \in r.scope.abilities_store.specializations
               /\ get_symbol_and_region(r.scope.idents, ident) =
                     Some(<<member, scope.idents.regions[found[1]]>>)
               /\ lookup(r.scope, ident, region) = Ok(member)
               /\ contains_symbol(r.scope, shadow)
               /\ iter_idents(r.scope.idents) = iter_idents(scope.idents)

\* The scope after a call that shadowed an ability member.
C23_Witness ==
    /\ result.op = "introduce_or_shadow_ability_member"
    /\ result.ret.tag = "Ok"
    /\ result.ret.value[2] # None
    /\ contains_symbol(scope, result.ret.value[1])
    /\ <<result.ret.value[1], result.ret.value[2][1]>>
          \in scope.abilities_store.specializations

====
